---- MODULE Spec2Model ----
(***************************************************************************)
(* Period summaries of the finance tracker: the period calculator, the     *)
(* aggregate reader, the get-or-create summary cache and the invalidation  *)
(* that the income and expense handlers start after a successful write.    *)
(*                                                                         *)
(* Dates are day numbers counted from 2022-01-01 (a Saturday).  Amounts    *)
(* are whole numbers.  The summary table and the two transaction tables    *)
(* are sets of rows; every model embeds gorm.Model, so a Delete marks the  *)
(* row (deleted_at) and the queries skip marked rows, while the unique     *)
(* index idx_type_period spans every row of the table.                     *)
(***************************************************************************)
EXTENDS Integers, Sequences, FiniteSets, TLC

----------------------------------------------------------------------------
(* Bounds of the model                                                     *)

MaxRequests == 3

MaxTasks == 1

----------------------------------------------------------------------------
(* Inputs                                                                  *)

Callers == {"c1", "c2"}

Tables == {"income", "expense"}

SummaryTypes == {"monthly", "yearly", "daily"}

ViewTypes == {"", "overall", "income", "expenses", "savings", "debts", "invalid_view"}

Amounts == {0, 1}

\* mutation of the period types of the handlers: the monthly rows are kept
HandlerPeriodTypesWithoutMonthly == <<"weekly", "yearly">>

\* []string{"monthly", "weekly", "yearly"}
HandlerPeriodTypes == <<"monthly", "weekly", "yearly">>

DirectPeriodTypes == {<< >>, <<"monthly">>, <<"invalid-type", "weekly">>}

----------------------------------------------------------------------------
(* Calendar arithmetic of the time package, as CalculatePeriodDates uses it *)

IsLeap(y) == (y % 4 = 0 /\ y % 100 # 0) \/ y % 400 = 0

DaysInYear(y) == IF IsLeap(y) THEN 366 ELSE 365

\* mutation of the calendar: February has 28 days in every year
DaysInMonthNoLeap(y, m) ==
    IF m = 2 THEN 28
    ELSE IF m \in {4, 6, 9, 11} THEN 30 ELSE 31

DaysInMonth(y, m) ==
    IF m = 2 THEN (IF IsLeap(y) THEN 29 ELSE 28)
    ELSE IF m \in {4, 6, 9, 11} THEN 30 ELSE 31

RECURSIVE DaysBeforeYear(_)
DaysBeforeYear(y) == IF y <= 2022 THEN 0 ELSE DaysBeforeYear(y - 1) + DaysInYear(y - 1)

RECURSIVE DaysBeforeMonth(_, _)
DaysBeforeMonth(y, m) == IF m <= 1 THEN 0 ELSE DaysBeforeMonth(y, m - 1) + DaysInMonth(y, m - 1)

\* time.Date(y, m, d, 0, 0, 0, 0, loc): month and day values outside their
\* ranges are normalised by carrying into the year and the day count
Date(y, m, d) ==
    LET yy == y + ((m - 1) \div 12)
        mm == ((m - 1) % 12) + 1
    IN  DaysBeforeYear(yy) + DaysBeforeMonth(yy, mm) + (d - 1)

Year(t) == CHOOSE y \in 2022..2026 : DaysBeforeYear(y) <= t /\ t < DaysBeforeYear(y + 1)

Month(t) ==
    CHOOSE m \in 1..12 :
        /\ Date(Year(t), m, 1) <= t
        /\ t < Date(Year(t), m, 1) + DaysInMonth(Year(t), m)

Day(t) == t - Date(Year(t), Month(t), 1) + 1

\* mutation of Weekday: every day is a Monday, so a week starts on its date
WeekdayAlwaysMonday(t) == 1

\* mutation of Weekday: Monday = 0, ..., Sunday = 6
WeekdayMondayFirst(t) == (t + 5) % 7

\* time.Weekday: Sunday = 0, Monday = 1, ..., Saturday = 6
Weekday(t) == (t + 6) % 7

\* mutation of AddDate: the days are subtracted
AddDateBackwards(t, years, months, days) == Date(Year(t) + years, Month(t) + months, Day(t) - days)

AddDate(t, years, months, days) == Date(Year(t) + years, Month(t) + months, Day(t) + days)

NoError == "nil"

\* mutation of CalculatePeriodDates: the year ends on January 1 of the next year
CalculatePeriodDatesToNextJanuary(targetDate, summaryType) ==
    IF summaryType = "weekly" THEN
        LET weekday == Weekday(targetDate)
            daysToMonday == IF weekday = 0 THEN -6 ELSE 1 - weekday
            startDate == AddDate(targetDate, 0, 0, daysToMonday)
        IN  [start |-> startDate, end |-> AddDate(startDate, 0, 0, 6), err |-> NoError]
    ELSE IF summaryType = "monthly" THEN
        LET startDate == Date(Year(targetDate), Month(targetDate), 1)
        IN  [start |-> startDate, end |-> AddDate(startDate, 0, 1, -1), err |-> NoError]
    ELSE IF summaryType = "yearly" THEN
        [start |-> Date(Year(targetDate), 1, 1), end |-> Date(Year(targetDate) + 1, 1, 1), err |-> NoError]
    ELSE [start |-> 0, end |-> 0, err |-> "invalid summary type"]

\* mutation of CalculatePeriodDates: the default case of the switch is monthly
CalculatePeriodDatesDefaultMonthly(targetDate, summaryType) ==
    IF summaryType = "weekly" THEN
        LET weekday == Weekday(targetDate)
            daysToMonday == IF weekday = 0 THEN -6 ELSE 1 - weekday
            startDate == AddDate(targetDate, 0, 0, daysToMonday)
        IN  [start |-> startDate, end |-> AddDate(startDate, 0, 0, 6), err |-> NoError]
    ELSE IF summaryType = "yearly" THEN
        [start |-> Date(Year(targetDate), 1, 1), end |-> Date(Year(targetDate), 12, 31), err |-> NoError]
    ELSE LET startDate == Date(Year(targetDate), Month(targetDate), 1)
         IN  [start |-> startDate, end |-> AddDate(startDate, 0, 1, -1), err |-> NoError]

\* CalculatePeriodDates(targetDate, summaryType)
CalculatePeriodDates(targetDate, summaryType) ==
    IF summaryType = "weekly" THEN
        LET weekday == Weekday(targetDate)
            daysToMonday == IF weekday = 0 THEN -6 ELSE 1 - weekday
            startDate == AddDate(targetDate, 0, 0, daysToMonday)
            endDate == AddDate(startDate, 0, 0, 6)
        IN  [start |-> Date(Year(startDate), Month(startDate), Day(startDate)),
             end |-> Date(Year(endDate), Month(endDate), Day(endDate)),
             err |-> NoError]
    ELSE IF summaryType = "monthly" THEN
        LET startDate == Date(Year(targetDate), Month(targetDate), 1)
            endDate == AddDate(startDate, 0, 1, -1)
        IN  [start |-> Date(Year(startDate), Month(startDate), Day(startDate)),
             end |-> Date(Year(endDate), Month(endDate), Day(endDate)),
             err |-> NoError]
    ELSE IF summaryType = "yearly" THEN
        LET startDate == Date(Year(targetDate), 1, 1)
            endDate == Date(Year(targetDate), 12, 31)
        IN  [start |-> Date(Year(startDate), Month(startDate), Day(startDate)),
             end |-> Date(Year(endDate), Month(endDate), Day(endDate)),
             err |-> NoError]
    ELSE [start |-> 0, end |-> 0, err |-> "invalid summary type"]

\* the dates the requests of the model carry: Sunday 2023-11-19 and
\* Monday 2023-12-04, in different weeks and months of one year
ModelDates == {Date(2023, 11, 19), Date(2023, 12, 4)}

PeriodTypes == SummaryTypes \cup {"weekly", "monthly", "yearly", "invalid-type"}

\* mutation of the period table: an unknown period type is taken as monthly
PeriodDatesDefaultMonthly ==
    [d \in ModelDates, t \in PeriodTypes |->
        CalculatePeriodDates(d, IF t \in {"weekly", "monthly", "yearly"} THEN t ELSE "monthly")]

\* CalculatePeriodDates on the dates and period types of the model
PeriodDates == [d \in ModelDates, t \in PeriodTypes |-> CalculatePeriodDates(d, t)]

----------------------------------------------------------------------------
(* State                                                                   *)

VARIABLES
    summaries,    \* rows of the financial_summaries table (models.FinancialSummary)
    records,      \* rows of the income and expense tables, per table
    calls,        \* the GetOrCreateFinancialSummary call each caller has in progress
    lastResult,   \* what the call that has just returned returned, with its history
    tasks,        \* the invalidations in progress (goroutines and direct calls)
    lastInvalidation, \* what the direct invalidation that has just returned returned
    obligations,  \* ids of the cached rows whose period held the date of a written record
    requests,     \* the requests received so far
    givenDate,    \* the date handed to the period calculator, or the current date
    period,       \* what the period calculator returned for givenDate
    trend         \* what GetIncomeExpenseTrend returned on the date givenDate

vars == <<summaries, records, calls, lastResult, tasks, lastInvalidation, obligations, requests,
          givenDate, period, trend>>

\* a nil pointer of an update request; a set field holds the value pointed to
NULL == {}

Deref(ptr) == CHOOSE v \in ptr : TRUE

\* a nil *models.FinancialSummary
NoSummary ==
    [id |-> 0, summary_type |-> "nil", period_start_date |-> 0, period_end_date |-> 0,
     total_income |-> 0, total_expenses |-> 0, net_balance |-> 0, deleted |-> FALSE]

\* models.FinancialSummary
FinancialSummary(id, summaryType, periodStartDate, periodEndDate, totalIncome, totalExpenses, netBalance) ==
    [id |-> id, summary_type |-> summaryType, period_start_date |-> periodStartDate,
     period_end_date |-> periodEndDate, total_income |-> totalIncome,
     total_expenses |-> totalExpenses, net_balance |-> netBalance, deleted |-> FALSE]

\* the rows a query sees: gorm adds "deleted_at IS NULL" for a model with gorm.Model
Live(rows) == {r \in rows : ~r.deleted}

\* the rows of the summary table with the key (summary_type, period_start_date)
WithKey(rows, summaryType, periodStartDate) ==
    {r \in rows : r.summary_type = summaryType /\ r.period_start_date = periodStartDate}

RECURSIVE SumAmount(_)
SumAmount(rows) ==
    IF rows = {} THEN 0
    ELSE LET r == CHOOSE x \in rows : TRUE IN r.amount + SumAmount(rows \ {r})

\* mutation of calculateTotalForPeriodGORM: the sum without the BETWEEN clause
SumOfWholeTable(startDate, endDate, table) ==
    SumAmount(Live(records[table]))

\* mutation of calculateTotalForPeriodGORM: the deleted records are summed as well
SumWithDeletedRecords(startDate, endDate, table) ==
    SumAmount({r \in records[table] : startDate <= r.date /\ r.date <= endDate})

\* mutation of calculateTotalForPeriodGORM: the end date is left out of the range
SumBeforeEndDate(startDate, endDate, table) ==
    SumAmount({r \in Live(records[table]) : startDate <= r.date /\ r.date < endDate})

\* calculateTotalForPeriodGORM: COALESCE(SUM(amount), 0) WHERE date BETWEEN start AND end
calculateTotalForPeriodGORM(startDate, endDate, table) ==
    SumAmount({r \in Live(records[table]) : startDate <= r.date /\ r.date <= endDate})

\* mutation of fetchSummaryFromDB: a read that never finds the cached row
FetchNeverFinds(summaryType, periodStartDate) ==
    [summary |-> NoSummary, err |-> "ErrRecordNotFound"]

\* fetchSummaryFromDB: First() of the rows with the key, or gorm.ErrRecordNotFound
fetchSummaryFromDB(summaryType, periodStartDate) ==
    LET found == WithKey(Live(summaries), summaryType, periodStartDate)
    IN  IF found = {} THEN [summary |-> NoSummary, err |-> "ErrRecordNotFound"]
        ELSE [summary |-> CHOOSE r \in found : \A o \in found : r.id <= o.id, err |-> NoError]

\* mutation of the unique index: a table without idx_type_period
NoUniqueIndex(rows, summary) == FALSE

\* the unique index idx_type_period on (summary_type, period_start_date): it
\* has no deleted_at column, so a marked row still occupies its key
ViolatesIdxTypePeriod(rows, summary) ==
    WithKey(rows, summary.summary_type, summary.period_start_date) # {}

\* mutation of storeSummaryInDB: a row that holds the key is overwritten
upsertSummaryInDB(rows, summary) ==
    LET held == WithKey(rows, summary.summary_type, summary.period_start_date)
        stored == [summary EXCEPT !.id = IF held = {} THEN Cardinality(rows) + 1
                                         ELSE (CHOOSE r \in held : TRUE).id]
    IN  [rows |-> (rows \ held) \cup {stored}, summary |-> stored, err |-> NoError]

\* storeSummaryInDB: DB.Create(summary); the row gets the next id of the table
storeSummaryInDB(rows, summary) ==
    IF ViolatesIdxTypePeriod(rows, summary)
    THEN [rows |-> rows, summary |-> NoSummary,
          err |-> "duplicate key value violates unique constraint idx_type_period"]
    ELSE LET stored == [summary EXCEPT !.id = Cardinality(rows) + 1]
         IN  [rows |-> rows \cup {stored}, summary |-> stored, err |-> NoError]

\* mutation of the Delete: the rows of the period type, whatever their start
deleteSummariesOfType(rows, periodType, periodStartDate) ==
    {IF r \in Live(rows) /\ r.summary_type = periodType
        THEN [r EXCEPT !.deleted = TRUE] ELSE r : r \in rows}

\* DB.Where("summary_type = ? AND period_start_date = ?").Delete(&models.FinancialSummary{})
deleteSummaries(rows, periodType, periodStartDate) ==
    {IF r \in WithKey(Live(rows), periodType, periodStartDate)
        THEN [r EXCEPT !.deleted = TRUE] ELSE r : r \in rows}

IdleCall ==
    [pc |-> "idle", summaryType |-> "nil", viewType |-> "nil",
     periodStartDate |-> 0, periodEndDate |-> 0, totalIncome |-> 0, totalExpenses |-> 0,
     cachedAtRead |-> FALSE, deletedAtRead |-> FALSE, conflict |-> FALSE, reads |-> 0,
     inserts |-> 0, defaulted |-> FALSE, faulted |-> FALSE, disturbed |-> FALSE, overlapped |-> FALSE, rival |-> FALSE]

NoInvalidation ==
    [itemDate |-> 0, periodTypes |-> << >>, err |-> NoError, returned |-> FALSE, outcomes |-> << >>]

NoResult == [caller |-> "nil", call |-> IdleCall, summary |-> NoSummary, err |-> NoError]

\* no date
NoDate == 0 - 1

\* GetIncomeExpenseTrend has not been called
NoTrend == [numMonths |-> 0, stats |-> << >>, returned |-> FALSE]

\* the period calculator has not been called
NoPeriod == [summaryType |-> "nil", start |-> 0, end |-> 0, err |-> NoError, from |-> NoDate]

Init ==
    /\ summaries = {}
    /\ records = [t \in Tables |-> {}]
    /\ calls = [c \in Callers |-> IdleCall]
    /\ lastResult = NoResult
    /\ tasks = << >>
    /\ lastInvalidation = NoInvalidation
    /\ obligations = {}
    /\ requests = 0
    /\ givenDate = NoDate
    /\ period = NoPeriod
    /\ trend = NoTrend

InProgress(c) == calls[c].pc # "idle"

----------------------------------------------------------------------------
(* GetOrCreateFinancialSummary                                             *)

\* mutation of the view test: the income view takes the stored path as well
IsOverallOrIncomeView(viewType) == viewType \in {"overall", "income"}

\* viewType == "overall": the view that is read from and stored in the table
IsOverallView(viewType) == viewType = "overall"

\* mutation of the view test: every view that is not served is answered as
\* not implemented
IsNotServedView(viewType) == viewType \notin {"overall", "income", "expenses"}

\* mutation of the view test: only savings is answered as not implemented
IsSavingsView(viewType) == viewType = "savings"

\* viewType == "savings" || viewType == "debts"
IsNotImplementedView(viewType) == viewType \in {"savings", "debts"}

\* the error of a statement on the store that fails: the database is not reached
StoreFailure == "connection refused"

\* mutation of the test of the read error: every error counts as not found
EveryReadErrorIsNotFound(err) == err # NoError

\* errors.Is(err, gorm.ErrRecordNotFound)
IsRecordNotFound(err) == err = "ErrRecordNotFound"

\* the storeErr test that selects the re-fetch
IsIdxTypePeriodViolation(err) ==
    err = "duplicate key value violates unique constraint idx_type_period"

\* the calls in progress that compute the summary of the same key
Rivals(cs, summaryType, periodStartDate) ==
    {o \in Callers : /\ cs[o].pc # "idle"
                      /\ cs[o].summaryType = summaryType
                      /\ cs[o].periodStartDate = periodStartDate}

\* every call in progress has run side by side with the call that begins, and
\* as its rival when that call has read the same key and found no row either
Overlap(cs, rivals) ==
    [o \in Callers |-> IF cs[o].pc # "idle"
                       THEN [cs[o] EXCEPT !.overlapped = TRUE, !.rival = @ \/ o \in rivals]
                       ELSE cs[o]]

\* every call in progress has run while a write or an invalidation ran
Disturb(cs) == [c \in Callers |-> IF cs[c].pc # "idle" THEN [cs[c] EXCEPT !.disturbed = TRUE] ELSE cs[c]]

\* the call returns (summary, err): the caller is free for its next request
Returns(cs, c, call, summary, err) ==
    /\ calls' = [cs EXCEPT ![c] = IdleCall]
    /\ lastResult' = [caller |-> c, call |-> [call EXCEPT !.pc = "done"], summary |-> summary, err |-> err]

\* the call goes on to its next statement on the store
Continues(cs, c, call) ==
    /\ calls' = [cs EXCEPT ![c] = call]
    /\ lastResult' = NoResult

\* mutation of the net balance: the expenses are not subtracted
NetBalanceOfIncome(totalIncome, totalExpenses) == totalIncome

\* netBalance := totalIncome - totalExpenses
NetBalance(totalIncome, totalExpenses) == totalIncome - totalExpenses

\* entry of the call up to its first statement on the store: the default
\* view, the period, the read of the cached row (overall) or the aggregate
\* of the view (income, expenses), and the errors of the other views
GetOrCreateFinancialSummary(c, summaryType, targetDate, viewTypeIn, fault) ==
    /\ calls[c].pc = "idle"
    /\ LET viewType == IF viewTypeIn = "" THEN "overall" ELSE viewTypeIn
           p == PeriodDates[targetDate, summaryType]
           call == [IdleCall EXCEPT !.summaryType = summaryType, !.viewType = viewType,
                                    !.defaulted = (viewTypeIn = ""),
                                    !.periodStartDate = p.start, !.periodEndDate = p.end,
                                    !.faulted = fault,
                                    !.overlapped = \E o \in Callers \ {c} : InProgress(o),
                                    !.disturbed = tasks # << >>]
           others == Overlap(calls, {})
       IN  IF p.err # NoError THEN ~fault /\ Returns(others, c, call, NoSummary, "InvalidGranularity")
           ELSE IF IsOverallView(viewType) THEN
             LET f == IF fault THEN [summary |-> NoSummary, err |-> StoreFailure]
                      ELSE fetchSummaryFromDB(summaryType, p.start)
                 read == [call EXCEPT
                            !.reads = 1,
                            !.cachedAtRead = WithKey(Live(summaries), summaryType, p.start) # {},
                            !.deletedAtRead = /\ WithKey(Live(summaries), summaryType, p.start) = {}
                                              /\ WithKey(summaries, summaryType, p.start) # {}]
             IN  IF f.err = NoError /\ f.summary # NoSummary THEN Returns(others, c, read, f.summary, NoError)
                 ELSE IF f.err # NoError /\ ~IsRecordNotFound(f.err)
                 THEN Returns(others, c, read, NoSummary, "StorageError")
                 ELSE LET rivals == Rivals(calls, summaryType, p.start)
                      IN  Continues(Overlap(calls, rivals), c,
                                    [read EXCEPT !.pc = "sumIncome", !.rival = rivals # {}])
           ELSE IF viewType = "income" THEN
             LET totalIncome == calculateTotalForPeriodGORM(p.start, p.end, "income")
             IN  IF fault THEN Returns(others, c, call, NoSummary, "StorageError")
                 ELSE Returns(others, c, call,
                              FinancialSummary(0, summaryType, p.start, p.end, totalIncome, 0, NetBalance(totalIncome, 0)),
                              NoError)
           ELSE IF viewType = "expenses" THEN
             LET totalExpenses == calculateTotalForPeriodGORM(p.start, p.end, "expense")
             IN  IF fault THEN Returns(others, c, call, NoSummary, "StorageError")
                 ELSE Returns(others, c, call,
                              FinancialSummary(0, summaryType, p.start, p.end, 0, totalExpenses, NetBalance(0, totalExpenses)),
                              NoError)
           ELSE IF IsNotImplementedView(viewType) THEN ~fault /\ Returns(others, c, call, NoSummary, "NotImplemented")
           ELSE ~fault /\ Returns(others, c, call, NoSummary, "InvalidView")
    /\ lastInvalidation' = NoInvalidation
    /\ UNCHANGED <<summaries, records, tasks, obligations>>

\* totalIncome, errIncome := calculateTotalForPeriodGORM(..., &models.Income{})
SumIncome(c, fault) ==
    /\ calls[c].pc = "sumIncome"
    /\ LET call == calls[c]
       IN  IF fault THEN Returns(calls, c, [call EXCEPT !.faulted = TRUE], NoSummary, "StorageError")
           ELSE Continues(calls, c,
                  [call EXCEPT !.pc = "sumExpenses",
                               !.totalIncome = calculateTotalForPeriodGORM(call.periodStartDate, call.periodEndDate, "income")])
    /\ lastInvalidation' = NoInvalidation
    /\ UNCHANGED <<summaries, records, tasks, obligations>>

\* totalExpenses, errExpenses := calculateTotalForPeriodGORM(..., &models.Expense{})
SumExpenses(c, fault) ==
    /\ calls[c].pc = "sumExpenses"
    /\ LET call == calls[c]
       IN  IF fault THEN Returns(calls, c, [call EXCEPT !.faulted = TRUE], NoSummary, "StorageError")
           ELSE Continues(calls, c,
                  [call EXCEPT !.pc = "store",
                               !.totalExpenses = calculateTotalForPeriodGORM(call.periodStartDate, call.periodEndDate, "expense")])
    /\ lastInvalidation' = NoInvalidation
    /\ UNCHANGED <<summaries, records, tasks, obligations>>

\* netBalance, newSummary and storeSummaryInDB(newSummary); a violation of
\* idx_type_period leads to the re-fetch, any other error is returned
StoreSummary(c, fault) ==
    /\ calls[c].pc = "store"
    /\ LET call == calls[c]
           netBalance == NetBalance(call.totalIncome, call.totalExpenses)
           newSummary == FinancialSummary(0, call.summaryType, call.periodStartDate, call.periodEndDate,
                                          call.totalIncome, call.totalExpenses, netBalance)
           stored == IF fault THEN [rows |-> summaries, summary |-> NoSummary, err |-> StoreFailure]
                     ELSE storeSummaryInDB(summaries, newSummary)
           tried == [call EXCEPT !.inserts = @ + 1, !.faulted = fault]
       IN  IF stored.err # NoError THEN
               /\ IF IsIdxTypePeriodViolation(stored.err)
                  THEN Continues(calls, c, [tried EXCEPT !.pc = "refetch", !.conflict = TRUE])
                  ELSE Returns(calls, c, tried, NoSummary, "StorageError")
               /\ summaries' = summaries
           ELSE
               /\ Returns(calls, c, tried, stored.summary, NoError)
               /\ summaries' = stored.rows
    /\ lastInvalidation' = NoInvalidation
    /\ UNCHANGED <<records, tasks, obligations>>

\* mutation of the re-fetch: a call that finds no row computes and inserts again
RefetchAndRetry(c, fault) ==
    /\ calls[c].pc = "refetch"
    /\ LET f == fetchSummaryFromDB(calls[c].summaryType, calls[c].periodStartDate)
           read == [calls[c] EXCEPT !.reads = @ + 1]
       IN  IF f.err = NoError THEN Returns(calls, c, read, f.summary, f.err)
           ELSE Continues(calls, c, [read EXCEPT !.pc = "sumIncome"])
    /\ lastInvalidation' = NoInvalidation
    /\ UNCHANGED <<summaries, records, tasks, obligations>>

\* return s.fetchSummaryFromDB(summaryType, periodStartDate) after the violation
Refetch(c, fault) ==
    /\ calls[c].pc = "refetch"
    /\ LET f == fetchSummaryFromDB(calls[c].summaryType, calls[c].periodStartDate)
           read == [calls[c] EXCEPT !.reads = @ + 1]
       IN  IF fault THEN Returns(calls, c, [read EXCEPT !.faulted = TRUE], NoSummary, "StorageError")
           ELSE Returns(calls, c, read, f.summary, f.err)
    /\ lastInvalidation' = NoInvalidation
    /\ UNCHANGED <<summaries, records, tasks, obligations>>

----------------------------------------------------------------------------
(* InvalidateSummariesForDate                                              *)

Task(itemDate, periodTypes, source) ==
    [itemDate |-> itemDate, periodTypes |-> periodTypes, remaining |-> periodTypes,
     firstError |-> NoError, source |-> source, outcomes |-> << >>]

RemoveAt(seq, i) == SubSeq(seq, 1, i - 1) \o SubSeq(seq, i + 1, Len(seq))

\* the invalidation that returned last, kept for the calls made directly
\* (the goroutine of a handler only logs what its call returns)
Returned(task, firstError, outcomes) ==
    IF task.source = "direct"
    THEN [itemDate |-> task.itemDate, periodTypes |-> task.periodTypes, err |-> firstError,
          returned |-> TRUE, outcomes |-> outcomes]
    ELSE NoInvalidation

\* mutation of the error test of the Delete: no row affected counts as a failure
DeleteFailedOrNoRow(fault, rows) == fault \/ rows = {}

\* result.Error != nil after the Delete; RowsAffected = 0 is not an error
DeleteFailed(fault, rows) == fault

\* mutation of the error kept: the last error of the loop
LastError(firstError, err) == IF err # NoError THEN err ELSE firstError

\* if firstError == nil { firstError = ... }
FirstError(firstError, err) == IF firstError = NoError THEN err ELSE firstError

\* a call of InvalidateSummariesForDate with any list of period types; with an
\* empty list the loop has no iteration and the call returns nil
InvalidateSummariesForDate(itemDate, periodTypes) ==
    /\ Len(tasks) < MaxTasks
    /\ IF periodTypes = << >>
       THEN /\ tasks' = tasks
            /\ lastInvalidation' = Returned(Task(itemDate, periodTypes, "direct"), NoError, << >>)
       ELSE /\ tasks' = Append(tasks, Task(itemDate, periodTypes, "direct"))
            /\ lastInvalidation' = NoInvalidation
    /\ calls' = Disturb(calls)
    /\ lastResult' = NoResult
    /\ UNCHANGED <<summaries, records, obligations>>

\* one iteration of the loop over summaryPeriodTypes: the period of the type,
\* the Delete of the rows with its key, the first error kept; after the last
\* iteration the function returns firstError
InvalidateStep(i, fault) ==
    /\ i \in 1..Len(tasks)
    /\ LET task == tasks[i]
           periodType == Head(task.remaining)
           p == PeriodDates[task.itemDate, periodType]
           rows == WithKey(Live(summaries), periodType, p.start)
           err == IF p.err # NoError THEN "failed to calculate period for " \o periodType
                  ELSE IF DeleteFailed(fault, rows) THEN "failed to delete summary for " \o periodType
                  ELSE NoError
           firstError == FirstError(task.firstError, err)
           outcome == [periodType |-> periodType,
                       result |-> IF p.err # NoError THEN "calculate"
                                  ELSE IF err # NoError THEN "delete" ELSE "deleted",
                       rowsAffected |-> IF err = NoError THEN Cardinality(rows) ELSE 0,
                       storeFailed |-> fault]
           outcomes == IF task.source = "direct" THEN Append(task.outcomes, outcome) ELSE task.outcomes
           next == [task EXCEPT !.remaining = Tail(@), !.firstError = firstError, !.outcomes = outcomes]
       IN  /\ fault => p.err = NoError
           /\ summaries' = IF err = NoError /\ ~fault
                           THEN deleteSummaries(summaries, periodType, p.start)
                           ELSE summaries
           /\ obligations' = IF fault
                             THEN obligations \ {r.id : r \in WithKey(summaries, periodType, p.start)}
                             ELSE obligations
           /\ IF next.remaining = << >>
              THEN /\ tasks' = RemoveAt(tasks, i)
                   /\ lastInvalidation' = Returned(task, firstError, outcomes)
              ELSE /\ tasks' = [tasks EXCEPT ![i] = next]
                   /\ lastInvalidation' = NoInvalidation
    /\ calls' = Disturb(calls)
    /\ lastResult' = NoResult
    /\ UNCHANGED records

----------------------------------------------------------------------------
(* Income and expense handlers                                             *)

\* the ids of the cached rows whose period contains the date
CachedRowsOf(itemDate) ==
    {r.id : r \in {x \in Live(summaries) :
                     x.period_start_date <= itemDate /\ itemDate <= x.period_end_date}}

\* go func(dateOfItem) { InvalidateSummariesForDate(dateOfItem.Time, {"monthly", "weekly", "yearly"}) }
StartInvalidation(itemDate) == Append(tasks, Task(itemDate, HandlerPeriodTypes, "handler"))

\* a request that is answered with an error status: the handler returns
\* before it writes and before it starts the invalidation
Rejected(status) ==
    /\ lastResult' = [NoResult EXCEPT !.err = status]
    /\ lastInvalidation' = NoInvalidation
    /\ UNCHANGED <<summaries, records, calls, tasks, obligations>>

\* the record is written and the handler starts the invalidation for itemDate
Written(table, rows, itemDate, dates) ==
    /\ records' = [records EXCEPT ![table] = rows]
    /\ tasks' = StartInvalidation(itemDate)
    /\ obligations' = obligations \cup UNION {CachedRowsOf(d) : d \in dates}
    /\ calls' = Disturb(calls)
    /\ lastResult' = NoResult
    /\ lastInvalidation' = NoInvalidation
    /\ UNCHANGED summaries

\* mutation of the create handlers: the invalidation is started before the
\* error of the service is looked at
CreateHandlerInvalidatesFirst(table, amount, date, fault) ==
    /\ Len(tasks) < MaxTasks
    /\ IF amount <= 0 THEN ~fault /\ Rejected("BadRequest")
       ELSE IF fault THEN
            /\ tasks' = StartInvalidation(date)
            /\ lastResult' = [NoResult EXCEPT !.err = "InternalServerError"]
            /\ lastInvalidation' = NoInvalidation
            /\ UNCHANGED <<summaries, records, calls, obligations>>
       ELSE Written(table,
                    records[table] \cup {[id |-> Cardinality(records[table]) + 1, amount |-> amount,
                                          date |-> date, deleted |-> FALSE]},
                    date, {date})

\* CreateIncomeHandler, CreateExpenseHandler
CreateHandler(table, amount, date, fault) ==
    /\ Len(tasks) < MaxTasks
    /\ IF amount <= 0 THEN ~fault /\ Rejected("BadRequest")         \* binding:"required,gt=0"
       ELSE IF fault THEN Rejected("InternalServerError")           \* CreateIncome returns an error
       ELSE Written(table,
                    records[table] \cup {[id |-> Cardinality(records[table]) + 1, amount |-> amount,
                                          date |-> date, deleted |-> FALSE]},
                    date, {date})

\* UpdateIncomeHandler, UpdateExpenseHandler with UpdateIncome, UpdateExpense:
\* the invalidation is started for the date of the updated record only
UpdateHandler(table, id, req, fault) ==
    /\ Len(tasks) < MaxTasks
    /\ LET found == {r \in Live(records[table]) : r.id = id}
       IN  IF id = 0 THEN ~fault /\ Rejected("BadRequest")                \* Invalid ID format
           ELSE IF req.amount # NULL /\ Deref(req.amount) <= 0
                THEN ~fault /\ Rejected("BadRequest")                     \* omitempty,gt=0
           ELSE IF req.amount = NULL /\ req.date = NULL /\ ~req.other
                THEN ~fault /\ Rejected("BadRequest")                     \* no field provided
           ELSE IF found = {} THEN ~fault /\ Rejected("NotFound")         \* record not found
           ELSE IF fault THEN Rejected("InternalServerError")             \* could not update
           ELSE LET existing == CHOOSE r \in found : TRUE
                    updated == [existing EXCEPT
                                  !.amount = IF req.amount # NULL THEN Deref(req.amount) ELSE @,
                                  !.date = IF req.date # NULL THEN Deref(req.date) ELSE @]
                IN  Written(table, (records[table] \ {existing}) \cup {updated},
                            updated.date, {existing.date, updated.date})

\* DeleteIncomeHandler, DeleteExpenseHandler: the record is read for its date, then deleted
DeleteHandler(table, id, fault) ==
    /\ Len(tasks) < MaxTasks
    /\ LET found == {r \in Live(records[table]) : r.id = id}
       IN  IF id = 0 THEN ~fault /\ Rejected("BadRequest")
           ELSE IF found = {} THEN ~fault /\ Rejected("NotFound")
           ELSE IF fault THEN Rejected("InternalServerError")
           ELSE LET incomeToDelete == CHOOSE r \in found : TRUE
                IN  Written(table,
                            (records[table] \ {incomeToDelete}) \cup {[incomeToDelete EXCEPT !.deleted = TRUE]},
                            incomeToDelete.date, {incomeToDelete.date})

\* the update requests: "other" stands for category and note, which matter to
\* the handler only when neither amount nor date is given
UpdateRequests ==
    {req \in [amount : {NULL} \cup {{a} : a \in Amounts},
              date : {NULL} \cup {{d} : d \in ModelDates},
              other : BOOLEAN] : req.other => (req.amount = NULL /\ req.date = NULL)}

RecordIds == 0..2

----------------------------------------------------------------------------
(* The requests of the server: summary requests of one caller, the writes  *)
(* of the income and expense handlers and the invalidations they start     *)

Request == requests < MaxRequests /\ requests' = requests + 1 /\ UNCHANGED <<givenDate, period, trend>>

Next ==
    \/ \E st \in SummaryTypes, d \in ModelDates, vt \in ViewTypes \ {""} :
          GetOrCreateFinancialSummary("c1", st, d, vt, FALSE) /\ Request
    \/ SumIncome("c1", FALSE) /\ UNCHANGED <<requests, givenDate, period, trend>>
    \/ SumExpenses("c1", FALSE) /\ UNCHANGED <<requests, givenDate, period, trend>>
    \/ StoreSummary("c1", FALSE) /\ UNCHANGED <<requests, givenDate, period, trend>>
    \/ Refetch("c1", FALSE) /\ UNCHANGED <<requests, givenDate, period, trend>>
    \/ \E i \in 1..MaxTasks : InvalidateStep(i, FALSE) /\ UNCHANGED <<requests, givenDate, period, trend>>
    \/ \E t \in Tables, a \in Amounts, d \in ModelDates, fault \in BOOLEAN :
          CreateHandler(t, a, d, fault) /\ Request
    \/ \E t \in Tables, id \in RecordIds, req \in UpdateRequests, fault \in BOOLEAN :
          UpdateHandler(t, id, req, fault) /\ Request
    \/ \E t \in Tables, id \in RecordIds, fault \in BOOLEAN :
          DeleteHandler(t, id, fault) /\ Request

Spec == Init /\ [][Next]_vars

----------------------------------------------------------------------------
(* Requests received one after the other: a request begins when the call   *)
(* and the invalidation of the requests before it have completed, and no   *)
(* update changes the date of its record                                   *)

MaxSequentialRequests == 4

SequentialRequest ==
    /\ requests < MaxSequentialRequests
    /\ requests' = requests + 1
    /\ tasks = << >>
    /\ \A c \in Callers : ~InProgress(c)
    /\ UNCHANGED <<givenDate, period, trend>>

\* the update leaves the date of the record with the id as it is
KeepsDate(table, id, req) ==
    IF req.date = NULL THEN TRUE
    ELSE \A r \in Live(records[table]) : r.id = id => r.date = Deref(req.date)

NextSequential ==
    \/ \E st \in {"weekly", "monthly", "yearly"}, d \in ModelDates :
          GetOrCreateFinancialSummary("c1", st, d, "overall", FALSE) /\ SequentialRequest
    \/ SumIncome("c1", FALSE) /\ UNCHANGED <<requests, givenDate, period, trend>>
    \/ SumExpenses("c1", FALSE) /\ UNCHANGED <<requests, givenDate, period, trend>>
    \/ StoreSummary("c1", FALSE) /\ UNCHANGED <<requests, givenDate, period, trend>>
    \/ Refetch("c1", FALSE) /\ UNCHANGED <<requests, givenDate, period, trend>>
    \/ \E i \in 1..MaxTasks : InvalidateStep(i, FALSE) /\ UNCHANGED <<requests, givenDate, period, trend>>
    \/ \E t \in Tables, d \in ModelDates : CreateHandler(t, 1, d, FALSE) /\ SequentialRequest
    \/ \E t \in Tables, id \in RecordIds, req \in UpdateRequests :
          KeepsDate(t, id, req) /\ UpdateHandler(t, id, req, FALSE) /\ SequentialRequest
    \/ \E t \in Tables, id \in RecordIds : DeleteHandler(t, id, FALSE) /\ SequentialRequest

SpecSequential == Init /\ [][NextSequential]_vars

----------------------------------------------------------------------------
(* Concurrent summary requests: two callers and invalidations called with  *)
(* any list of period types, over tables that already hold records         *)

RaceDate == Date(2023, 11, 19)

RaceSummaryTypes == {"monthly", "yearly", "daily"}

RaceViewTypes == ViewTypes

MaxRaceRequests == 4

InitRace ==
    /\ summaries = {}
    /\ records \in {[income |-> i, expense |-> e] :
                       i \in {{}, {[id |-> 1, amount |-> 2, date |-> RaceDate, deleted |-> FALSE]}},
                       e \in {{}, {[id |-> 1, amount |-> 1, date |-> RaceDate, deleted |-> FALSE]}}}
    /\ calls = [c \in Callers |-> IdleCall]
    /\ lastResult = NoResult
    /\ tasks = << >>
    /\ lastInvalidation = NoInvalidation
    /\ obligations = {}
    /\ requests = 0
    /\ givenDate = NoDate
    /\ period = NoPeriod
    /\ trend = NoTrend

RaceRequest ==
    requests < MaxRaceRequests /\ requests' = requests + 1 /\ UNCHANGED <<givenDate, period, trend>>

NextRace ==
    \/ \E c \in Callers, st \in RaceSummaryTypes, vt \in RaceViewTypes :
          GetOrCreateFinancialSummary(c, st, RaceDate, vt, FALSE) /\ RaceRequest
    \/ \E c \in Callers : SumIncome(c, FALSE) /\ UNCHANGED <<requests, givenDate, period, trend>>
    \/ \E c \in Callers : SumExpenses(c, FALSE) /\ UNCHANGED <<requests, givenDate, period, trend>>
    \/ \E c \in Callers : StoreSummary(c, FALSE) /\ UNCHANGED <<requests, givenDate, period, trend>>
    \/ \E c \in Callers : Refetch(c, FALSE) /\ UNCHANGED <<requests, givenDate, period, trend>>
    \/ \E pts \in DirectPeriodTypes : InvalidateSummariesForDate(RaceDate, pts) /\ RaceRequest
    \/ \E i \in 1..MaxTasks : InvalidateStep(i, FALSE) /\ UNCHANGED <<requests, givenDate, period, trend>>

SpecRace == InitRace /\ [][NextRace]_vars

\* the statement of the call of caller c that comes next; the Go scheduler
\* runs every goroutine that can run, and the statements on the store return
CallStep(c) ==
    /\ SumIncome(c, FALSE) \/ SumExpenses(c, FALSE) \/ StoreSummary(c, FALSE) \/ Refetch(c, FALSE)
    /\ UNCHANGED <<requests, givenDate, period, trend>>

\* overall and income requests of two callers for two period types, next to
\* invalidations of the monthly rows
NextTerminate ==
    \/ \E c \in Callers, st \in {"monthly", "yearly"}, vt \in {"overall", "income"} :
          GetOrCreateFinancialSummary(c, st, RaceDate, vt, FALSE) /\ RaceRequest
    \/ \E c \in Callers : CallStep(c)
    \/ InvalidateSummariesForDate(RaceDate, <<"monthly">>) /\ RaceRequest
    \/ \E i \in 1..MaxTasks : InvalidateStep(i, FALSE) /\ UNCHANGED <<requests, givenDate, period, trend>>

SpecTerminate == InitRace /\ [][NextTerminate]_vars /\ \A c \in Callers : WF_vars(CallStep(c))

----------------------------------------------------------------------------
(* Summary requests of two callers whose statements on the store may fail  *)

NextFault ==
    \/ \E c \in Callers, st \in {"monthly", "yearly"}, vt \in {"overall", "income", "expenses"},
          fault \in BOOLEAN :
          GetOrCreateFinancialSummary(c, st, RaceDate, vt, fault) /\ RaceRequest
    \/ \E c \in Callers, fault \in BOOLEAN :
          SumIncome(c, fault) /\ UNCHANGED <<requests, givenDate, period, trend>>
    \/ \E c \in Callers, fault \in BOOLEAN :
          SumExpenses(c, fault) /\ UNCHANGED <<requests, givenDate, period, trend>>
    \/ \E c \in Callers, fault \in BOOLEAN :
          StoreSummary(c, fault) /\ UNCHANGED <<requests, givenDate, period, trend>>
    \/ \E c \in Callers, fault \in BOOLEAN :
          Refetch(c, fault) /\ UNCHANGED <<requests, givenDate, period, trend>>

SpecFault == InitRace /\ [][NextFault]_vars

----------------------------------------------------------------------------
(* Invalidations called with any date and list of period types, with       *)
(* Deletes that may fail, next to the overall requests of one caller       *)

InvalidatePeriodTypes ==
    {<< >>, <<"monthly">>, <<"invalid-type", "weekly">>, <<"monthly", "invalid-type", "yearly">>}

MaxInvalidateRequests == 4

InvalidateRequest ==
    requests < MaxInvalidateRequests /\ requests' = requests + 1 /\ UNCHANGED <<givenDate, period, trend>>

NextInvalidate ==
    \/ \E st \in {"monthly", "yearly"}, d \in ModelDates :
          GetOrCreateFinancialSummary("c1", st, d, "overall", FALSE) /\ InvalidateRequest
    \/ SumIncome("c1", FALSE) /\ UNCHANGED <<requests, givenDate, period, trend>>
    \/ SumExpenses("c1", FALSE) /\ UNCHANGED <<requests, givenDate, period, trend>>
    \/ StoreSummary("c1", FALSE) /\ UNCHANGED <<requests, givenDate, period, trend>>
    \/ Refetch("c1", FALSE) /\ UNCHANGED <<requests, givenDate, period, trend>>
    \/ \E d \in ModelDates, pts \in InvalidatePeriodTypes :
          InvalidateSummariesForDate(d, pts) /\ InvalidateRequest
    \/ \E i \in 1..MaxTasks, fault \in BOOLEAN : InvalidateStep(i, fault) /\ UNCHANGED <<requests, givenDate, period, trend>>

SpecInvalidate == Init /\ [][NextInvalidate]_vars

----------------------------------------------------------------------------
(* The period calculator on the dates of two years, one of them a leap     *)
(* year, and on the dates of the periods it returns                        *)

FirstDate == Date(2023, 1, 1)

LastDate == Date(2024, 12, 31)

CalendarDates == FirstDate..LastDate

InitPeriod ==
    /\ summaries = {}
    /\ records = [t \in Tables |-> {}]
    /\ calls = [c \in Callers |-> IdleCall]
    /\ lastResult = NoResult
    /\ tasks = << >>
    /\ lastInvalidation = NoInvalidation
    /\ obligations = {}
    /\ requests = 0
    /\ givenDate \in CalendarDates
    /\ period = NoPeriod
    /\ trend = NoTrend

\* what CalculatePeriodDates returns, with the period type and the date of
\* the call before
Calculated(date, summaryType, from) ==
    LET p == CalculatePeriodDates(date, summaryType)
    IN  [summaryType |-> summaryType, start |-> p.start, end |-> p.end, err |-> p.err, from |-> from]

\* CalculatePeriodDates(givenDate, summaryType)
Calculate(summaryType) ==
    /\ period = NoPeriod
    /\ trend = NoTrend
    /\ period' = Calculated(givenDate, summaryType, NoDate)
    /\ UNCHANGED <<summaries, records, calls, lastResult, tasks, lastInvalidation, obligations,
                   requests, givenDate, trend>>

\* CalculatePeriodDates for a date of the period returned before: the day
\* before or after the date, the first or the last day of the period
CalculateWithin(date) ==
    /\ period.summaryType # "nil"
    /\ period.err = NoError
    /\ date # givenDate
    /\ period.start <= date /\ date <= period.end
    /\ givenDate' = date
    /\ period' = Calculated(date, period.summaryType, givenDate)
    /\ UNCHANGED <<summaries, records, calls, lastResult, tasks, lastInvalidation, obligations,
                   requests, trend>>

\* the period types handed to the calculator: the three it knows, the one
\* its test rejects ("daily") and other strings of the default case
CalculatorSummaryTypes == {"weekly", "monthly", "yearly", "invalid-type", "daily", "Weekly", ""}

NextPeriod ==
    \/ \E t \in CalculatorSummaryTypes : Calculate(t)
    \/ \E d \in {givenDate - 1, givenDate + 1, period.start, period.end} : CalculateWithin(d)

SpecPeriod == InitPeriod /\ [][NextPeriod]_vars

----------------------------------------------------------------------------
(* The aggregate reader on tables that hold records dated on the first and *)
(* the last day of a week, on the day before and on the day after, some of *)
(* them deleted; the views income and expenses return what it computes     *)

\* Sunday 2023-11-12, Monday 2023-11-13, Sunday 2023-11-19, Monday 2023-11-20
SumRecordDates == <<Date(2023, 11, 12), Date(2023, 11, 13), Date(2023, 11, 19), Date(2023, 11, 20)>>

\* the record with id i is dated SumRecordDates[i] and has the amount 2^(i-1)
SumRecords ==
    {[id |-> i, amount |-> 2 ^ (i - 1), date |-> SumRecordDates[i], deleted |-> del] :
        i \in 1..Len(SumRecordDates), del \in BOOLEAN}

\* the tables of records: at most one row for an id
SumTables == {rows \in SUBSET SumRecords : \A r1 \in rows : \A r2 \in rows : r1.id = r2.id => r1 = r2}

InitSum ==
    /\ summaries = {}
    /\ records \in [Tables -> SumTables]
    /\ calls = [c \in Callers |-> IdleCall]
    /\ lastResult = NoResult
    /\ tasks = << >>
    /\ lastInvalidation = NoInvalidation
    /\ obligations = {}
    /\ requests = 0
    /\ givenDate = NoDate
    /\ period = NoPeriod
    /\ trend = NoTrend

NextSum ==
    \E st \in {"weekly", "monthly", "yearly"}, d \in ModelDates, vt \in {"income", "expenses"} :
        GetOrCreateFinancialSummary("c1", st, d, vt, FALSE) /\ UNCHANGED <<requests, givenDate, period, trend>>

SpecSum == InitSum /\ [][NextSum]_vars

----------------------------------------------------------------------------
(* GetIncomeExpenseTrend of the analytics service, on every day of a leap  *)
(* year as the current date                                                *)

MaxTrendMonths == 3

\* time.Now(): the days of 2024
TrendToday == Date(2024, 1, 1)..Date(2024, 12, 31)

\* income on the last day of January, February and March 2024 and on the
\* first day of March; expenses in February and March
TrendRecords ==
    [income |-> {[id |-> 1, amount |-> 1, date |-> Date(2024, 1, 31), deleted |-> FALSE],
                 [id |-> 2, amount |-> 2, date |-> Date(2024, 2, 29), deleted |-> FALSE],
                 [id |-> 3, amount |-> 4, date |-> Date(2024, 3, 31), deleted |-> FALSE],
                 [id |-> 4, amount |-> 8, date |-> Date(2024, 3, 1), deleted |-> FALSE]},
     expense |-> {[id |-> 1, amount |-> 1, date |-> Date(2024, 2, 1), deleted |-> FALSE],
                  [id |-> 2, amount |-> 2, date |-> Date(2024, 3, 15), deleted |-> FALSE]}]

\* Format("2006-01"): the year and the month of a date, as the number YYYYMM
FormatMonth(t) == Year(t) * 100 + Month(t)

\* models.MonthlyTrendStat
MonthlyTrendStat(month, totalIncome, totalExpenses) ==
    [month |-> month, totalIncome |-> totalIncome, totalExpenses |-> totalExpenses]

\* AnalyticsService.calculateTotalForPeriod: COALESCE(SUM(amount), 0) WHERE date BETWEEN start AND end
calculateTotalForPeriod(startDate, endDate, table) ==
    SumAmount({r \in Live(records[table]) : startDate <= r.date /\ r.date <= endDate})

\* the body of the loop of GetIncomeExpenseTrend for the index i
TrendOfMonth(today, i) ==
    LET targetMonthDate == AddDate(today, 0, 0 - i, 0)
        monthStartDate == Date(Year(targetMonthDate), Month(targetMonthDate), 1)
        monthEndDate == AddDate(AddDate(monthStartDate, 0, 1, 0), 0, 0, -1)
    IN  MonthlyTrendStat(FormatMonth(monthStartDate),
                         calculateTotalForPeriod(monthStartDate, monthEndDate, "income"),
                         calculateTotalForPeriod(monthStartDate, monthEndDate, "expense"))

\* the swap loop that puts the oldest month first
Reverse(seq) == [k \in 1..Len(seq) |-> seq[Len(seq) + 1 - k]]

\* GetIncomeExpenseTrend(numMonths) with time.Now() = today
GetIncomeExpenseTrend(today, numMonths) ==
    Reverse([k \in 1..numMonths |-> TrendOfMonth(today, k - 1)])

InitTrend ==
    /\ summaries = {}
    /\ records \in {[t \in Tables |-> {}], TrendRecords}
    /\ calls = [c \in Callers |-> IdleCall]
    /\ lastResult = NoResult
    /\ tasks = << >>
    /\ lastInvalidation = NoInvalidation
    /\ obligations = {}
    /\ requests = 0
    /\ givenDate \in TrendToday
    /\ period = NoPeriod
    /\ trend = NoTrend

\* a request for the trend of the last numMonths months
TrendRequest(numMonths) ==
    /\ ~trend.returned
    /\ trend' = [numMonths |-> numMonths,
                 stats |-> GetIncomeExpenseTrend(givenDate, numMonths),
                 returned |-> TRUE]
    /\ UNCHANGED <<summaries, records, calls, lastResult, tasks, lastInvalidation, obligations,
                   requests, givenDate, period>>

NextTrend == \E numMonths \in 1..MaxTrendMonths : TrendRequest(numMonths)

SpecTrend == InitTrend /\ [][NextTrend]_vars

----------------------------------------------------------------------------
(* Properties                                                              *)

\* the sum of the amounts of the records of a table that are not deleted and
\* are dated from startDate to endDate, both days included
RECURSIVE TotalOf(_, _)
TotalOf(rows, ids) ==
    IF ids = {} THEN 0
    ELSE LET id == CHOOSE i \in ids : TRUE
             row == CHOOSE r \in rows : r.id = id
         IN  row.amount + TotalOf(rows, ids \ {id})

ExpectedTotal(table, startDate, endDate) ==
    TotalOf(records[table],
            {r.id : r \in {x \in records[table] : ~x.deleted /\ x.date \in startDate..endDate}})

\* a call has returned in the step that led to this state
JustReturned == lastResult.caller # "nil"

\* the cached row of the key the returned call asked for
CachedRowsOfResult ==
    WithKey(Live(summaries), lastResult.call.summaryType, lastResult.call.periodStartDate)

SameTotals(a, b) ==
    /\ a.total_income = b.total_income
    /\ a.total_expenses = b.total_expenses
    /\ a.net_balance = b.net_balance

\* caller c takes a step of its call: it begins, goes on or returns
StepOf(c) == calls'[c].pc # calls[c].pc \/ lastResult'.caller = c

\* caller c begins a call in this step (and may return in the same step)
Begins(c) == calls[c].pc = "idle" /\ StepOf(c)

\* the call of caller c after the step: in progress, or just returned
CallAfter(c) == IF lastResult'.caller = c THEN lastResult'.call ELSE calls'[c]

\* the view of the call that caller c takes a step of
ViewOfStep(c) == IF calls[c].pc = "idle" THEN CallAfter(c).viewType ELSE calls[c].viewType

\* C1: in every reachable state, whatever the interleaving of summary
\* requests of any view and invalidations, the summary table holds at most
\* one row for each (summary_type, period_start_date) pair
C1_OneRowPerTypeAndPeriod ==
    \A r1 \in summaries : \A r2 \in summaries :
        (r1.summary_type = r2.summary_type /\ r1.period_start_date = r2.period_start_date) => r1 = r2

\* C1 witness: a row is stored and the insert of another call for a key has
\* been rejected by the unique index
C1_Witness ==
    /\ Cardinality(summaries) >= 2
    /\ \E c \in Callers : calls[c].pc = "refetch"

\* C2: two concurrent overall calls for a period without a cached row, with
\* no write and no invalidation running: each call returns without error, one
\* row of the key is cached and the call returns the totals of that row
C2_ConcurrentCallsBothSucceed ==
    (/\ JustReturned
     /\ lastResult.call.viewType = "overall"
     /\ lastResult.call.reads >= 1
     /\ ~lastResult.call.cachedAtRead
     /\ lastResult.call.rival
     /\ ~lastResult.call.disturbed)
    => /\ lastResult.err = NoError
       /\ Cardinality(CachedRowsOfResult) = 1
       /\ \A r \in CachedRowsOfResult : SameTotals(r, lastResult.summary)

\* C3: a call whose insert was rejected by the unique index returns the row
\* of its key, never an error and never a nil summary, under any interleaving
C3_ConflictReturnsTheRow ==
    (JustReturned /\ lastResult.call.conflict)
    => /\ lastResult.err = NoError
       /\ lastResult.summary # NoSummary
       /\ lastResult.summary \in CachedRowsOfResult

\* C4: after an invalidation has deleted the cached row of a key, the next
\* overall call for the key, with nothing else running, succeeds, computes
\* the totals from the current records and inserts a new cached row with them
C4_RecomputedAfterInvalidation ==
    (/\ JustReturned
     /\ lastResult.call.viewType = "overall"
     /\ lastResult.call.deletedAtRead
     /\ ~lastResult.call.overlapped
     /\ ~lastResult.call.disturbed)
    => /\ lastResult.err = NoError
       /\ lastResult.call.inserts = 1
       /\ lastResult.summary.total_income =
            ExpectedTotal("income", lastResult.call.periodStartDate, lastResult.call.periodEndDate)
       /\ lastResult.summary.total_expenses =
            ExpectedTotal("expense", lastResult.call.periodStartDate, lastResult.call.periodEndDate)
       /\ \E r \in CachedRowsOfResult : SameTotals(r, lastResult.summary)

\* C5: once the invalidations started by the handlers have run to their end,
\* no cached row is left whose period contained the date of a created,
\* updated or deleted record when it was written, the date before an update
\* included
C5_WrittenPeriodsInvalidated ==
    tasks = << >> => \A r \in Live(summaries) : r.id \notin obligations

\* C6: when a cached row of the key exists as an overall call reads the
\* cache, the call returns that row in this step, whatever the records sum
\* to, and writes nothing
C6_CachedRowReturnedVerbatim ==
    [][\A c \in Callers :
          (/\ Begins(c)
           /\ CallAfter(c).viewType = "overall"
           /\ WithKey(Live(summaries), CallAfter(c).summaryType, CallAfter(c).periodStartDate) # {})
          => /\ lastResult'.caller = c
             /\ lastResult'.err = NoError
             /\ lastResult'.summary \in
                  WithKey(Live(summaries), CallAfter(c).summaryType, CallAfter(c).periodStartDate)
             /\ summaries' = summaries
             /\ records' = records]_vars

\* C6 witness: a call has returned a cached row whose income total is not
\* what the income records of its period sum to
C6_Witness ==
    /\ JustReturned
    /\ lastResult.call.cachedAtRead
    /\ lastResult.err = NoError
    /\ lastResult.summary.total_income #
         ExpectedTotal("income", lastResult.call.periodStartDate, lastResult.call.periodEndDate)

\* C7: when no cached row of the key exists and nothing else runs, an overall
\* call returns the sums of the income and of the expenses of the period and
\* their difference, and the table then holds one row of the key with them
C7_ComputedAndStored ==
    (/\ JustReturned
     /\ lastResult.call.viewType = "overall"
     /\ lastResult.call.reads >= 1
     /\ ~lastResult.call.cachedAtRead
     /\ ~lastResult.call.overlapped
     /\ ~lastResult.call.disturbed)
    => /\ lastResult.err = NoError
       /\ lastResult.summary.total_income =
            ExpectedTotal("income", lastResult.call.periodStartDate, lastResult.call.periodEndDate)
       /\ lastResult.summary.total_expenses =
            ExpectedTotal("expense", lastResult.call.periodStartDate, lastResult.call.periodEndDate)
       /\ lastResult.summary.net_balance =
            lastResult.summary.total_income - lastResult.summary.total_expenses
       /\ Cardinality(CachedRowsOfResult) = 1
       /\ \A r \in CachedRowsOfResult : r = lastResult.summary

\* C8: no step of a call with view income or expenses changes the summary
\* table, whatever the period type, the date and the rows stored before
C8_ViewCallsLeaveTableUnchanged ==
    [][\A c \in Callers :
          (StepOf(c) /\ ViewOfStep(c) \in {"income", "expenses"}) => summaries' = summaries]_vars

\* C8 witness: an income or expenses call has returned a summary while the
\* table held rows
C8_Witness ==
    /\ JustReturned
    /\ lastResult.call.viewType \in {"income", "expenses"}
    /\ lastResult.err = NoError
    /\ Live(summaries) # {}

\* C9: an income call returns the current sum of the income of the period,
\* expenses 0 and that sum as net balance; an expenses call returns income 0,
\* the current sum of the expenses and its negation as net balance
C9_ViewTotalsFromRecords ==
    /\ (JustReturned /\ lastResult.call.viewType = "income" /\ lastResult.err # "InvalidGranularity")
       => /\ lastResult.err = NoError
          /\ lastResult.summary.total_income =
               ExpectedTotal("income", lastResult.call.periodStartDate, lastResult.call.periodEndDate)
          /\ lastResult.summary.total_expenses = 0
          /\ lastResult.summary.net_balance = lastResult.summary.total_income
    /\ (JustReturned /\ lastResult.call.viewType = "expenses" /\ lastResult.err # "InvalidGranularity")
       => /\ lastResult.err = NoError
          /\ lastResult.summary.total_income = 0
          /\ lastResult.summary.total_expenses =
               ExpectedTotal("expense", lastResult.call.periodStartDate, lastResult.call.periodEndDate)
          /\ lastResult.summary.net_balance = 0 - lastResult.summary.total_expenses

\* C9 witness: an income call has returned a total that differs from the
\* income total of the cached overall row of the same key
C9_Witness ==
    /\ JustReturned
    /\ lastResult.call.viewType = "income"
    /\ lastResult.err = NoError
    /\ \E r \in CachedRowsOfResult : r.total_income # lastResult.summary.total_income

\* C10: for a valid period type and any date, a call with view savings or
\* debts returns the not-implemented error and no summary in its first step
\* and leaves the summary table unchanged
C10_SavingsAndDebtsNotImplemented ==
    [][\A c \in Callers :
          (/\ Begins(c)
           /\ CallAfter(c).viewType \in {"savings", "debts"}
           /\ CallAfter(c).summaryType \in {"weekly", "monthly", "yearly"})
          => /\ lastResult'.caller = c
             /\ lastResult'.err = "NotImplemented"
             /\ lastResult'.summary = NoSummary
             /\ summaries' = summaries]_vars

\* C10 witness: a savings or debts call has returned the error while the
\* table held a cached row
C10_Witness ==
    /\ JustReturned
    /\ lastResult.call.viewType \in {"savings", "debts"}
    /\ lastResult.err = "NotImplemented"
    /\ Live(summaries) # {}

\* the view values the service names
NamedViews == {"overall", "income", "expenses", "savings", "debts"}

\* the period types the calculator knows
ValidSummaryTypes == {"weekly", "monthly", "yearly"}

\* the view the call of caller c was given is none of the named views: an
\* empty view, or a view that is still unnamed after the default
GivenUnnamedView(c) == CallAfter(c).defaulted \/ CallAfter(c).viewType \notin NamedViews

\* C11 as stated: for a valid period type and any date, a call with any view
\* value other than overall, income, expenses, savings and debts returns the
\* invalid-view error and leaves the summary table unchanged
C11_AnyOtherViewIsInvalid ==
    [][\A c \in Callers :
          (/\ Begins(c)
           /\ GivenUnnamedView(c)
           /\ CallAfter(c).summaryType \in ValidSummaryTypes)
          => /\ lastResult'.caller = c
             /\ lastResult'.err = "InvalidView"
             /\ summaries' = summaries]_vars

\* C11 amended: for a valid period type and any date, a call with a view
\* value that is not empty and is none of overall, income, expenses, savings
\* and debts returns the invalid-view error and no summary in its first step
\* and leaves the summary table unchanged (an empty view is served as overall)
C11_NonEmptyOtherViewIsInvalid ==
    [][\A c \in Callers :
          (/\ Begins(c)
           /\ ~CallAfter(c).defaulted
           /\ CallAfter(c).viewType \notin NamedViews
           /\ CallAfter(c).summaryType \in ValidSummaryTypes)
          => /\ lastResult'.caller = c
             /\ lastResult'.err = "InvalidView"
             /\ lastResult'.summary = NoSummary
             /\ summaries' = summaries]_vars

\* C11 witness: a call with an unnamed view has returned the invalid-view
\* error while the table held a cached row
C11_Witness ==
    /\ JustReturned
    /\ ~lastResult.call.defaulted
    /\ lastResult.call.viewType \notin NamedViews
    /\ lastResult.err = "InvalidView"
    /\ Live(summaries) # {}

\* C12: a call with a period type other than weekly, monthly and yearly
\* returns the calculator's error in its first step, for every view value,
\* before any read of the cache, and leaves the tables unchanged
C12_InvalidGranularityFailsFast ==
    [][\A c \in Callers :
          (Begins(c) /\ CallAfter(c).summaryType \notin ValidSummaryTypes)
          => /\ lastResult'.caller = c
             /\ lastResult'.err = "InvalidGranularity"
             /\ lastResult'.summary = NoSummary
             /\ lastResult'.call.reads = 0
             /\ summaries' = summaries
             /\ records' = records]_vars

\* C12 witness: a call with an invalid period type and an invalid view has
\* returned the calculator's error while the table held a cached row
C12_Witness ==
    /\ JustReturned
    /\ lastResult.call.summaryType \notin ValidSummaryTypes
    /\ lastResult.call.viewType = "invalid_view"
    /\ lastResult.err = "InvalidGranularity"
    /\ Live(summaries) # {}

\* this step is an iteration of the loop of the invalidation tasks[i]
IteratesTask(i) ==
    /\ i \in 1..Len(tasks)
    /\ \/ Len(tasks[i].remaining) = 1 /\ tasks' = RemoveAt(tasks, i)
       \/ /\ Len(tasks') = Len(tasks)
          /\ tasks'[i].remaining = Tail(tasks[i].remaining)

\* what the iteration of this step did, as the call made directly records it
OutcomeOfStep(i) ==
    LET outcomes == IF Len(tasks') < Len(tasks) THEN lastInvalidation'.outcomes ELSE tasks'[i].outcomes
    IN  outcomes[Len(outcomes)]

\* the cached rows of a period type whose period contains the date
CachedRowsContaining(periodType, itemDate) ==
    {r \in Live(summaries) : /\ r.summary_type = periodType
                              /\ r.period_start_date <= itemDate
                              /\ itemDate <= r.period_end_date}

\* the error of the first period type of the list that failed
FirstFailure(outcomes) ==
    LET failed == {k \in 1..Len(outcomes) : outcomes[k].result # "deleted"}
    IN  IF failed = {} THEN NoError
        ELSE LET k == CHOOSE x \in failed : \A y \in failed : x <= y
             IN  IF outcomes[k].result = "calculate"
                 THEN "failed to calculate period for " \o outcomes[k].periodType
                 ELSE "failed to delete summary for " \o outcomes[k].periodType

\* C13: an invalidation for date d and list G removes, for each period type
\* of G, exactly the cached rows of that type whose period contains d and
\* leaves every other row as it is; with an empty list it removes nothing
\* and returns no error
C13_RemovesExactlyTheKeyedRows ==
    [][/\ \A i \in 1..Len(tasks) :
            (IteratesTask(i) /\ tasks[i].source = "direct" /\ ~OutcomeOfStep(i).storeFailed)
            => /\ Live(summaries') =
                    Live(summaries) \ CachedRowsContaining(Head(tasks[i].remaining), tasks[i].itemDate)
               /\ {[r EXCEPT !.deleted = FALSE] : r \in summaries'} =
                    {[r EXCEPT !.deleted = FALSE] : r \in summaries}
       /\ (lastInvalidation'.returned /\ lastInvalidation'.periodTypes = << >>)
            => (lastInvalidation'.err = NoError /\ summaries' = summaries)]_vars

\* C13 witness: an invalidation has removed the row of a period type of its
\* list while a row of that type for another period and a row of another
\* period type that contains the date are still cached
C13_Witness ==
    /\ lastInvalidation.returned
    /\ lastInvalidation.periodTypes = <<"monthly">>
    /\ lastInvalidation.outcomes[1].rowsAffected = 1
    /\ \E r \in Live(summaries) :
          r.summary_type = "monthly" /\ ~(r.period_start_date <= lastInvalidation.itemDate
                                          /\ lastInvalidation.itemDate <= r.period_end_date)
    /\ \E r \in Live(summaries) :
          r.summary_type # "monthly" /\ r.period_start_date <= lastInvalidation.itemDate
                                     /\ lastInvalidation.itemDate <= r.period_end_date

\* C14: an iteration of an invalidation that finds no cached row of its key
\* changes nothing and is no error, so a call that repeats an invalidation
\* leaves the table as the first call left it and returns no error
C14_NoMatchingRowIsNoError ==
    [][/\ \A i \in 1..Len(tasks) :
            (/\ IteratesTask(i)
             /\ tasks[i].source = "direct"
             /\ Head(tasks[i].remaining) \in ValidSummaryTypes
             /\ ~OutcomeOfStep(i).storeFailed
             /\ CachedRowsContaining(Head(tasks[i].remaining), tasks[i].itemDate) = {})
            => /\ summaries' = summaries
               /\ OutcomeOfStep(i).result = "deleted"
               /\ IF Len(tasks') < Len(tasks)
                  THEN lastInvalidation'.err = tasks[i].firstError
                  ELSE tasks'[i].firstError = tasks[i].firstError
       /\ (/\ lastInvalidation'.returned
           /\ \A k \in 1..Len(lastInvalidation'.outcomes) :
                 /\ lastInvalidation'.outcomes[k].periodType \in ValidSummaryTypes
                 /\ ~lastInvalidation'.outcomes[k].storeFailed)
            => lastInvalidation'.err = NoError]_vars

\* C14 witness: an invalidation has returned no error after it found no row
\* to delete, for a key whose row an earlier invalidation had deleted
C14_Witness ==
    /\ lastInvalidation.returned
    /\ lastInvalidation.err = NoError
    /\ lastInvalidation.periodTypes = <<"monthly">>
    /\ lastInvalidation.outcomes[1].rowsAffected = 0
    /\ \E r \in summaries :
          /\ r.deleted
          /\ r.summary_type = "monthly"
          /\ r.period_start_date <= lastInvalidation.itemDate
          /\ lastInvalidation.itemDate <= r.period_end_date

\* C15: when a period type of the list is invalid or its Delete fails, the
\* loop still runs for every period type of the list, the iterations after
\* a failure delete the rows of their key as the ones before did, and the
\* call returns the error of the first failure in list order
C15_FirstErrorAndBestEffort ==
    [][/\ \A i \in 1..Len(tasks) :
            (/\ IteratesTask(i)
             /\ tasks[i].source = "direct"
             /\ tasks[i].firstError # NoError
             /\ OutcomeOfStep(i).result = "deleted")
            => Live(summaries') =
                 Live(summaries) \ CachedRowsContaining(Head(tasks[i].remaining), tasks[i].itemDate)
       /\ lastInvalidation'.returned
            => /\ Len(lastInvalidation'.outcomes) = Len(lastInvalidation'.periodTypes)
               /\ \A k \in 1..Len(lastInvalidation'.outcomes) :
                     /\ lastInvalidation'.outcomes[k].periodType = lastInvalidation'.periodTypes[k]
                     /\ lastInvalidation'.outcomes[k].periodType \notin ValidSummaryTypes
                          => lastInvalidation'.outcomes[k].result = "calculate"
               /\ lastInvalidation'.err = FirstFailure(lastInvalidation'.outcomes)]_vars

\* C15 witness: an invalidation has returned the error of an invalid period
\* type after it deleted a row for the type before it and a row for the
\* type after it in the list
C15_Witness ==
    /\ lastInvalidation.returned
    /\ lastInvalidation.periodTypes = <<"monthly", "invalid-type", "yearly">>
    /\ lastInvalidation.err = "failed to calculate period for invalid-type"
    /\ lastInvalidation.outcomes[1].rowsAffected = 1
    /\ lastInvalidation.outcomes[3].rowsAffected = 1

\* the period calculator has returned the period of givenDate for a valid
\* period type
PeriodOf(summaryType) == period.summaryType = summaryType /\ period.err = NoError

\* Monday 2023-11-13, as the tests of the calculator name it
AMonday == Date(2023, 11, 13)

\* the days from a Monday to the date, counted in weeks of seven days
DaysSinceMonday(date) == (date - AMonday + 7000) % 7

\* the days of a month of the calendar
CalendarDaysOf(year, month) ==
    IF month = 2 THEN (IF year = 2024 THEN 29 ELSE 28)
    ELSE IF month \in {4, 6, 9, 11} THEN 30 ELSE 31

\* C16: for every date and every period type in weekly, monthly, yearly the
\* calculator returns a period that holds the date: start <= date <= end
C16_PeriodContainsDate ==
    period.summaryType \in ValidSummaryTypes
    => /\ period.err = NoError
       /\ period.start <= givenDate
       /\ givenDate <= period.end

\* C16 witness: the period of a date that is neither its first nor its last day
C16_Witness ==
    /\ period.summaryType \in ValidSummaryTypes
    /\ period.from = NoDate
    /\ period.start < givenDate
    /\ givenDate < period.end

\* C17: the weekly period starts on the Monday on or before the date and
\* ends six days later; for a Sunday it starts six days before the date
C17_WeekFromMondayToSunday ==
    PeriodOf("weekly")
    => /\ DaysSinceMonday(period.start) = 0
       /\ period.start <= givenDate
       /\ givenDate - period.start <= 6
       /\ period.end = period.start + 6
       /\ DaysSinceMonday(givenDate) = 6 => period.start = givenDate - 6

\* C17 witness: the week of Sunday 2023-01-01, which began in the year before
C17_Witness ==
    /\ PeriodOf("weekly")
    /\ givenDate = Date(2023, 1, 1)
    /\ period.start = Date(2022, 12, 26)
    /\ period.end = givenDate

\* C18: the monthly period starts on day 1 of the month of the date and ends
\* on the last day of that month: 28 or 29 for February, 30 or 31 otherwise
C18_MonthFromFirstToLastDay ==
    PeriodOf("monthly")
    => /\ Year(period.start) = Year(givenDate)
       /\ Month(period.start) = Month(givenDate)
       /\ Day(period.start) = 1
       /\ Year(period.end) = Year(givenDate)
       /\ Month(period.end) = Month(givenDate)
       /\ Day(period.end) = CalendarDaysOf(Year(givenDate), Month(givenDate))
       /\ period.end - period.start + 1 = CalendarDaysOf(Year(givenDate), Month(givenDate))

\* C18 witness: the month of a date of February 2024, which ends on day 29
C18_Witness ==
    /\ PeriodOf("monthly")
    /\ givenDate = Date(2024, 2, 10)
    /\ period.end = Date(2024, 2, 29)
    /\ period.end - period.start = 28

\* C19: the yearly period starts on January 1 and ends on December 31 of
\* the year of the date
C19_YearFromJanuaryToDecember ==
    PeriodOf("yearly")
    => /\ Month(period.start) = 1 /\ Day(period.start) = 1
       /\ Month(period.end) = 12 /\ Day(period.end) = 31
       /\ Year(period.start) = Year(period.end)
       /\ period.start <= givenDate /\ givenDate <= period.end
       /\ period.end - period.start + 1 = (IF Year(period.start) = 2024 THEN 366 ELSE 365)

\* C19 witness: the year of the last day of the leap year 2024
C19_Witness ==
    /\ PeriodOf("yearly")
    /\ givenDate = Date(2024, 12, 31)
    /\ period.start = Date(2024, 1, 1)
    /\ period.end = givenDate

\* C20: the calculator returns the same period for every date of a period
\* it has returned, its first day included: each step from a date to another
\* date of its period leaves start and end as they are
C20_PeriodsPartitionTheCalendar ==
    [][(/\ period.summaryType \in ValidSummaryTypes
        /\ period'.summaryType = period.summaryType
        /\ period.start <= givenDate' /\ givenDate' <= period.end)
       => (period'.start = period.start /\ period'.end = period.end /\ period'.err = NoError)]_vars

\* C20 witness: the calculator has been called for the first day of a week
\* from a date of that week in another month
C20_Witness ==
    /\ PeriodOf("weekly")
    /\ period.from # NoDate
    /\ givenDate = period.start
    /\ Month(period.from) # Month(givenDate)

\* C21: the calculator fails with the invalid-summary-type error exactly when
\* the period type is not one of weekly, monthly, yearly; for those three it
\* never fails, for any date
C21_FailsExactlyOnUnknownType ==
    period.summaryType # "nil"
    => /\ period.err # NoError <=> period.summaryType \notin ValidSummaryTypes
       /\ period.err # NoError => period.err = "invalid summary type"

\* C21 witness: the calculator has rejected the period type daily for the
\* leap day 2024-02-29
C21_Witness ==
    /\ period.summaryType = "daily"
    /\ period.err = "invalid summary type"
    /\ givenDate = Date(2024, 2, 29)

\* the table a view sums and the total it returns
TableOfView(viewType) == IF viewType = "income" THEN "income" ELSE "expense"

ReturnedTotal ==
    IF lastResult.call.viewType = "income"
    THEN lastResult.summary.total_income ELSE lastResult.summary.total_expenses

\* the amounts of the records are distinct powers of two, so a record
\* contributes to a total exactly when its binary digit is set
Contributes(r, total) == (total \div r.amount) % 2 = 1

\* C22: the aggregate of a table from start to end is the sum of the amounts
\* of exactly the records that are not deleted and are dated from start to
\* end, both days included; it is 0 without error when there is none, and a
\* record of the day before start or the day after end never contributes
C22_SumOverTheInclusiveRange ==
    (JustReturned /\ lastResult.call.viewType \in {"income", "expenses"})
    => LET rows == records[TableOfView(lastResult.call.viewType)]
           startDate == lastResult.call.periodStartDate
           endDate == lastResult.call.periodEndDate
           inRange == {r \in rows : ~r.deleted /\ startDate <= r.date /\ r.date <= endDate}
       IN  /\ lastResult.err = NoError
           /\ ReturnedTotal = TotalOf(rows, {r.id : r \in inRange})
           /\ \A r \in rows : Contributes(r, ReturnedTotal) <=> r \in inRange
           /\ inRange = {} => ReturnedTotal = 0
           /\ \A r \in rows : r.date \in {startDate - 1, endDate + 1} => ~Contributes(r, ReturnedTotal)

\* C22 witness: the income of the week from 2023-11-13 to 2023-11-19 with a
\* record on each of its two ends, on the day before and on the day after
C22_Witness ==
    /\ JustReturned
    /\ lastResult.call.viewType = "income"
    /\ lastResult.call.summaryType = "weekly"
    /\ lastResult.call.periodStartDate = Date(2023, 11, 13)
    /\ Cardinality(Live(records["income"])) = 4
    /\ lastResult.summary.total_income = 6

\* C23: in every reachable state every cached row has net_balance =
\* total_income - total_expenses, and so has every summary a call returns,
\* for any view
C23_NetBalanceIsIncomeMinusExpenses ==
    /\ \A r \in summaries : r.net_balance = r.total_income - r.total_expenses
    /\ (JustReturned /\ lastResult.summary # NoSummary)
         => lastResult.summary.net_balance =
              lastResult.summary.total_income - lastResult.summary.total_expenses

\* C23 witness: an expenses call has returned a negative net balance while a
\* row with income and expenses is cached
C23_Witness ==
    /\ JustReturned
    /\ lastResult.call.viewType = "expenses"
    /\ lastResult.summary.total_expenses = 1
    /\ lastResult.summary.net_balance = 0 - 1
    /\ \E r \in Live(summaries) : r.total_income = 2 /\ r.total_expenses = 1 /\ r.net_balance = 1

\* C24: in an overall call, a read of the cache that fails for another
\* reason than not-found, a read of an aggregate that fails and an insert
\* that fails for another reason than the unique index each make the call
\* return a storage error and no summary; in the first two cases no insert
\* has been attempted, and the summary table is unchanged
C24_StorageErrorsAreReturned ==
    [][\A c \in Callers :
          (/\ StepOf(c)
           /\ calls[c].pc \in {"idle", "sumIncome", "sumExpenses", "store"}
           /\ CallAfter(c).viewType = "overall"
           /\ CallAfter(c).faulted)
          => /\ lastResult'.caller = c
             /\ lastResult'.err = "StorageError"
             /\ lastResult'.summary = NoSummary
             /\ summaries' = summaries
             /\ calls[c].pc # "store" => lastResult'.call.inserts = 0
             /\ calls[c].pc = "store" => ~lastResult'.call.conflict]_vars

\* C24 witness: the insert of an overall call has failed, with no row of its
\* key in the table, while a row of another key is cached
C24_Witness ==
    /\ JustReturned
    /\ lastResult.call.viewType = "overall"
    /\ lastResult.call.faulted
    /\ lastResult.call.inserts = 1
    /\ lastResult.err = "StorageError"
    /\ WithKey(summaries, lastResult.call.summaryType, lastResult.call.periodStartDate) = {}
    /\ Live(summaries) # {}

\* the totals of a summary are the sums of the current records of its period
TotalsAreCurrent(summary) ==
    /\ summary.total_income =
         ExpectedTotal("income", summary.period_start_date, summary.period_end_date)
    /\ summary.total_expenses =
         ExpectedTotal("expense", summary.period_start_date, summary.period_end_date)

\* C25: an overall call that runs side by side with a successful write of a
\* record of its period and the invalidation of that write can leave, once
\* all three have completed, a cached row of its key whose totals lack the
\* written record (the witness); a call that found no cached row returns and
\* caches other totals than the current sums only when a write or an
\* invalidation ran while it was in progress
C25_StaleRowOnlyFromTheRace ==
    (/\ JustReturned
     /\ lastResult.call.viewType = "overall"
     /\ lastResult.err = NoError
     /\ ~lastResult.call.cachedAtRead)
    => /\ \E r \in CachedRowsOfResult : r = lastResult.summary
       /\ ~TotalsAreCurrent(lastResult.summary) => lastResult.call.disturbed

\* C25 witness: one overall call and one successful create of an income
\* record of its period have been received, the call, the write and the
\* invalidation have completed, and the cached row of the call's key has an
\* income total of 0 while the income of its period is 1
C25_Witness ==
    /\ JustReturned
    /\ lastResult.call.viewType = "overall"
    /\ lastResult.err = NoError
    /\ requests = 2
    /\ tasks = << >>
    /\ Cardinality(Live(records["income"])) = 1
    /\ \E r \in CachedRowsOfResult :
          /\ r.total_income = 0
          /\ ExpectedTotal("income", r.period_start_date, r.period_end_date) = 1

\* the row of the table after the step that has the id of row r
RowAfter(r) == CHOOSE n \in summaries' : n.id = r.id

\* the rows the step has added to the table
InsertedRows == {n \in summaries' : \A r \in summaries : r.id # n.id}

\* C26: the totals and the period of a cached row never change; the only
\* changes of the summary table are the insert of one new row by the store
\* step of an overall call and the deletion of rows by an iteration of an
\* invalidation; no step of a call deletes a row
C26_RowsAreInsertedOrDeletedOnly ==
    [][/\ \A r \in summaries :
            /\ \E n \in summaries' : n.id = r.id
            /\ [RowAfter(r) EXCEPT !.deleted = r.deleted] = r
            /\ r.deleted => RowAfter(r).deleted
       /\ Cardinality(InsertedRows) <= 1
       /\ \A n \in InsertedRows :
            /\ ~n.deleted
            /\ \E c \in Callers : /\ calls[c].pc = "store"
                                  /\ calls[c].viewType = "overall"
                                  /\ lastResult'.caller = c
                                  /\ lastResult'.summary = n
       /\ (\E r \in summaries : ~r.deleted /\ RowAfter(r).deleted)
            => \E i \in 1..Len(tasks) : IteratesTask(i)
       /\ \A c \in Callers :
            StepOf(c) => \A r \in summaries : RowAfter(r).deleted = r.deleted]_vars

\* C26 witness: an overall call has inserted its row into a table that holds
\* a row of another key, deleted by an invalidation with its totals intact
C26_Witness ==
    /\ JustReturned
    /\ lastResult.call.inserts = 1
    /\ lastResult.err = NoError
    /\ lastResult.summary \in Live(summaries)
    /\ \E r \in summaries : r.deleted /\ r.total_income = 2 /\ r.total_expenses = 1

\* the place of a statement in the body of GetOrCreateFinancialSummary
Rank(pc) ==
    IF pc = "idle" THEN 0
    ELSE IF pc = "sumIncome" THEN 1
    ELSE IF pc = "sumExpenses" THEN 2
    ELSE IF pc = "store" THEN 3
    ELSE IF pc = "refetch" THEN 4 ELSE 5

\* C27: every call returns under any interleaving with other calls and with
\* invalidations: it reads the cache at most twice and attempts at most one
\* insert, and each of its steps goes forward in its body or returns
C27_CallsTerminate ==
    /\ [](/\ \A c \in Callers : calls[c].reads <= 2 /\ calls[c].inserts <= 1
          /\ lastResult.call.reads <= 2 /\ lastResult.call.inserts <= 1
          /\ lastResult.call.reads = 2 => lastResult.call.conflict)
    /\ [][\A c \in Callers :
            \/ calls'[c] = calls[c]
            \/ Rank(calls'[c].pc) > Rank(calls[c].pc)
            \/ calls'[c].pc = "idle" /\ lastResult'.caller = c
            \/ calls'[c].pc = calls[c].pc /\ calls'[c].reads = calls[c].reads
                                          /\ calls'[c].inserts = calls[c].inserts]_vars
    /\ \A c \in Callers : (calls[c].pc # "idle") ~> (calls[c].pc = "idle")

\* C27 witness: a call has returned after its one insert attempt and its
\* second read of the cache, beside a call of the other caller
C27_Witness ==
    /\ JustReturned
    /\ lastResult.call.reads = 2
    /\ lastResult.call.inserts = 1
    /\ lastResult.call.overlapped

\* the error statuses of the income and expense handlers
FailureStatuses == {"BadRequest", "NotFound", "InternalServerError"}

\* the request of this step has been answered with an error status
RequestFails == lastResult'.caller = "nil" /\ lastResult'.err \in FailureStatuses

\* C28: a create, update or delete request that fails (invalid body or id,
\* record not found, storage error) starts no invalidation and writes
\* nothing, so every cached row is as it was
C28_FailedRequestInvalidatesNothing ==
    [][RequestFails => /\ tasks' = tasks
                       /\ summaries' = summaries
                       /\ records' = records]_vars

\* C28 witness: a request on a record that exists has failed with a storage
\* error while a row was cached and no invalidation was running
C28_Witness ==
    /\ lastResult.caller = "nil"
    /\ lastResult.err = "InternalServerError"
    /\ Live(summaries) # {}
    /\ \E t \in Tables : Live(records[t]) # {}
    /\ tasks = << >>

\* C29: when the requests are received one after the other, from an empty
\* cache, each after the invalidation of the write before it has completed,
\* and no update changes the date of a record, every summary an overall
\* call returns without error has the sums of the current income and
\* expense records of its period as its totals
C29_SequentialSummariesAreCurrent ==
    (JustReturned /\ lastResult.call.viewType = "overall" /\ lastResult.err = NoError)
    => /\ lastResult.summary # NoSummary
       /\ lastResult.summary.period_start_date = lastResult.call.periodStartDate
       /\ lastResult.summary.period_end_date = lastResult.call.periodEndDate
       /\ TotalsAreCurrent(lastResult.summary)

\* C29 witness: a call has returned the cached row of its period, with the
\* income of a record written before the row, after a record of another
\* period was written
C29_Witness ==
    /\ JustReturned
    /\ lastResult.call.cachedAtRead
    /\ lastResult.err = NoError
    /\ lastResult.summary.total_income = 1
    /\ \E t \in Tables : \E r \in Live(records[t]) :
          r.date < lastResult.summary.period_start_date \/ r.date > lastResult.summary.period_end_date

\* the months counted from the year 0, and the label YYYYMM of a count
MonthIndex(t) == Year(t) * 12 + Month(t) - 1

LabelOfIndex(index) == (index \div 12) * 100 + (index % 12) + 1

\* the first and the last day of the month with the label YYYYMM
FirstDayOf(label) == Date(label \div 100, label % 100, 1)

LastDayOf(label) == FirstDayOf(label) + CalendarDaysOf(label \div 100, label % 100) - 1

\* C30: for every current date, the days 29 to 31 of a month included, and
\* every n >= 1 the trend has n entries, labelled with the n consecutive
\* months that end with the current month, the oldest first, and each entry
\* holds the income and the expenses of the month of its label
C30_TrendOfConsecutiveMonths ==
    trend.returned
    => /\ Len(trend.stats) = trend.numMonths
       /\ \A k \in 1..Len(trend.stats) :
            /\ trend.stats[k].month = LabelOfIndex(MonthIndex(givenDate) - (trend.numMonths - k))
            /\ trend.stats[k].totalIncome =
                 ExpectedTotal("income", FirstDayOf(trend.stats[k].month), LastDayOf(trend.stats[k].month))
            /\ trend.stats[k].totalExpenses =
                 ExpectedTotal("expense", FirstDayOf(trend.stats[k].month), LastDayOf(trend.stats[k].month))

====
